---- MODULE Spec2Model ----
(***************************************************************************)
(* Todo List REST API: the Go (Fiber) and Node (Fastify) back ends.        *)
(*                                                                         *)
(* Each back end is handler/route -> service -> repository -> one SQLite   *)
(* table `todos`.  The model keeps the table, the AUTOINCREMENT sequence,  *)
(* the wall clock (CURRENT_TIMESTAMP has one-second resolution) and the    *)
(* last response handed back to a caller.                                  *)
(*                                                                         *)
(* Strings are run-length encoded: a string is a sequence of runs          *)
(* [c |-> character, n |-> repetitions], adjacent runs having different    *)
(* characters.  The encoding is exact, so a 256 character title costs one  *)
(* run.  An optional value is <<>> (absent / NULL / nil) or <<v>>.         *)
(***************************************************************************)
EXTENDS Integers, Sequences, FiniteSets, TLC

VARIABLES backend, todos, seq, clock, resp, calls

vars == <<backend, todos, seq, clock, resp, calls>>

(***************************************************************************)
(* Bounds of the model                                                     *)
(***************************************************************************)
MaxTodos == 2

MaxClock == 1

SeedRows == 3

MaxCalls == 2

(***************************************************************************)
(* Program constants                                                       *)
(***************************************************************************)
TitleMax == 255

DescriptionMax == 1000

DefaultPage == 1

DefaultPerPage == 20

PerPageMax == 100

StatsPerPage == 1000

(***************************************************************************)
(* Strings                                                                 *)
(***************************************************************************)
Run(c, n) == [c |-> c, n |-> n]

RECURSIVE StrLen(_)
StrLen(s) == IF s = <<>> THEN 0 ELSE Head(s).n + StrLen(Tail(s))

IsSpace(c) == c = " "

RECURSIVE TrimLeft(_)
TrimLeft(s) ==
    IF s = <<>> THEN <<>>
    ELSE IF IsSpace(Head(s).c) THEN TrimLeft(Tail(s)) ELSE s

RECURSIVE TrimRight(_)
TrimRight(s) ==
    IF s = <<>> THEN <<>>
    ELSE IF IsSpace(s[Len(s)].c) THEN TrimRight(SubSeq(s, 1, Len(s) - 1)) ELSE s

TrimSpace(s) == TrimRight(TrimLeft(s))

None == <<>>

Some(v) == <<v>>

IsSome(o) == o # <<>>

Val(o) == o[1]

(***************************************************************************)
(* The table and the values exchanged with callers                         *)
(***************************************************************************)
Backends == {"go", "node"}

Db(rows, s) == [todos |-> rows, seq |-> s]

Row(id, title, description, completed, now) ==
    [id |-> id, title |-> title, description |-> description,
     completed |-> completed, created_at |-> now, updated_at |-> now]

\* A create/update body: title is "" when the field is missing from a create
\* body; hasTitle / hasDescription / completed = None say a field is absent.
Body(hasTitle, title, description, completed) ==
    [hasTitle |-> hasTitle, title |-> title,
     description |-> description, completed |-> completed]

NoBody == Body(FALSE, <<>>, None, None)

Query(page, perPage, sort, order, search, completed) ==
    [page |-> page, per_page |-> perPage, sort |-> sort, order |-> order,
     search |-> search, completed |-> completed]

NoQuery == Query(0, 0, "", "", <<>>, None)

NoResp ==
    [op |-> "none", layer |-> "none", http |-> 0, err |-> "", rule |-> "",
     details |-> <<>>, todo |-> None, hasList |-> FALSE, data |-> <<>>,
     total |-> 0, page |-> 0, per_page |-> 0, total_pages |-> 0,
     stats |-> [total |-> 0, completed |-> 0, pending |-> 0],
     id |-> 0, body |-> NoBody, q |-> NoQuery, tie |-> "none"]

Out(db, r) == [db |-> db, resp |-> r]

Failure(op, layer, http, err, rule) ==
    [NoResp EXCEPT !.op = op, !.layer = layer, !.http = http,
                   !.err = err, !.rule = rule, !.details = <<rule>>]

Entity(op, layer, http, todo) ==
    [NoResp EXCEPT !.op = op, !.layer = layer, !.http = http, !.todo = todo]

(***************************************************************************)
(* SQLite statements shared by the two repositories (same schema)          *)
(***************************************************************************)
\* SELECT ... FROM todos WHERE id = ?
SelectById(db, id) ==
    IF \E r \in db.todos : r.id = id
    THEN Some(CHOOSE r \in db.todos : r.id = id)
    ELSE None

\* INSERT INTO todos (title, description, completed): id is AUTOINCREMENT,
\* created_at and updated_at both DEFAULT CURRENT_TIMESTAMP.
\* INSERT into a table declared without AUTOINCREMENT: the new rowid is one
\* more than the largest rowid stored, so the id of a deleted last row returns.
InsertTodoMaxRowid(db, title, description, completed, now) ==
    LET top == IF db.todos = {} THEN 0
               ELSE CHOOSE m \in {r.id : r \in db.todos} :
                        \A r \in db.todos : r.id <= m
    IN  Db(db.todos \cup {Row(top + 1, title, description, completed, now)},
           IF top + 1 > db.seq THEN top + 1 ELSE db.seq)

InsertTodo(db, title, description, completed, now) ==
    Db(db.todos \cup {Row(db.seq + 1, title, description, completed, now)},
       db.seq + 1)

\* UPDATE that also restamps created_at.
UpdateRowRestamping(r, u, now) ==
    [r EXCEPT !.title = IF u.hasTitle THEN u.title ELSE @,
              !.description = IF u.hasDescription THEN u.description ELSE @,
              !.completed = IF IsSome(u.completed) THEN Val(u.completed) ELSE @,
              !.created_at = now + 1,
              !.updated_at = now]

\* UPDATE writing every column, the columns not supplied with their defaults.
UpdateRowReplacing(r, u, now) ==
    [r EXCEPT !.title = IF u.hasTitle THEN u.title ELSE @,
              !.description = IF u.hasDescription THEN u.description ELSE None,
              !.completed = IF IsSome(u.completed) THEN Val(u.completed) ELSE FALSE,
              !.updated_at = now]

\* UPDATE todos SET <supplied columns>, updated_at = CURRENT_TIMESTAMP
\* WHERE id = ?  (the AFTER UPDATE trigger writes updated_at once more).
UpdateRow(r, u, now) ==
    [r EXCEPT !.title = IF u.hasTitle THEN u.title ELSE @,
              !.description = IF u.hasDescription THEN u.description ELSE @,
              !.completed = IF IsSome(u.completed) THEN Val(u.completed) ELSE @,
              !.updated_at = now]

UpdateTodoRow(db, id, u, now) ==
    Db({IF r.id = id THEN UpdateRow(r, u, now) ELSE r : r \in db.todos}, db.seq)

\* DELETE FROM todos WHERE id = ?
DeleteRow(db, id) == Db({r \in db.todos : r.id # id}, db.seq)

\* The column assignments a repository update receives.
Updates(hasTitle, title, hasDescription, description, completed) ==
    [hasTitle |-> hasTitle, title |-> title, hasDescription |-> hasDescription,
     description |-> description, completed |-> completed]

NoUpdates(u) == ~u.hasTitle /\ ~u.hasDescription /\ ~IsSome(u.completed)

(***************************************************************************)
(* Go back end: repository                                                 *)
(***************************************************************************)
GoRepoGetByID(db, id) == SelectById(db, id)

GoRepoExists(db, id) == \E r \in db.todos : r.id = id

\* Inserts, then reads the row back: the caller's todo becomes the stored row.
\* Create handing back the caller's struct with the new id, its timestamps
\* taken by the service after the INSERT instead of read from the row.
GoRepoCreateUnfetched(db, title, description, completed, now) ==
    LET db2 == InsertTodo(db, title, description, completed, now)
    IN  [db |-> db2,
         todo |-> Some([Row(db2.seq, title, description, completed, now)
                           EXCEPT !.created_at = now + 1, !.updated_at = now + 1])]

GoRepoCreate(db, title, description, completed, now) ==
    LET db2 == InsertTodo(db, title, description, completed, now)
    IN  [db |-> db2, todo |-> GoRepoGetByID(db2, db2.seq)]

GoRepoUpdate(db, id, u, now) ==
    IF NoUpdates(u) THEN [db |-> db, todo |-> GoRepoGetByID(db, id)]
    ELSE IF ~GoRepoExists(db, id) THEN [db |-> db, todo |-> None]
    ELSE LET db2 == UpdateTodoRow(db, id, u, now)
         IN  [db |-> db2, todo |-> GoRepoGetByID(db2, id)]

\* err is "" on success, "not found" when no row was affected.
GoRepoDelete(db, id) ==
    IF GoRepoExists(db, id)
    THEN [db |-> DeleteRow(db, id), err |-> ""]
    ELSE [db |-> db, err |-> "todo not found"]

\* DELETE FROM todos: the id sequence is kept; no row affected is an error.
GoRepoDeleteAll(db) ==
    IF db.todos = {}
    THEN [db |-> db, err |-> "no todos found to delete"]
    ELSE [db |-> Db({}, db.seq), err |-> ""]

(***************************************************************************)
(* Go back end: service                                                    *)
(***************************************************************************)
\* validateCreateRequest measuring the title after strings.TrimSpace.
GoValidateCreateRequestTrimmed(b) ==
    IF TrimSpace(b.title) = <<>> THEN "title is required"
    ELSE IF StrLen(TrimSpace(b.title)) > TitleMax
         THEN "title cannot exceed 255 characters"
    ELSE IF IsSome(b.description) /\ StrLen(Val(b.description)) > DescriptionMax
         THEN "description cannot exceed 1000 characters"
    ELSE ""

\* The message of the first failing rule, "" when the request is valid.
GoValidateCreateRequest(b) ==
    IF TrimSpace(b.title) = <<>> THEN "title is required"
    ELSE IF StrLen(b.title) > TitleMax THEN "title cannot exceed 255 characters"
    ELSE IF IsSome(b.description) /\ StrLen(Val(b.description)) > DescriptionMax
         THEN "description cannot exceed 1000 characters"
    ELSE ""

GoValidateUpdateRequest(b) ==
    IF b.hasTitle /\ TrimSpace(b.title) = <<>> THEN "title cannot be empty"
    ELSE IF b.hasTitle /\ StrLen(b.title) > TitleMax
         THEN "title cannot exceed 255 characters"
    ELSE IF IsSome(b.description) /\ StrLen(Val(b.description)) > DescriptionMax
         THEN "description cannot exceed 1000 characters"
    ELSE ""

\* Which rule a validation message stands for.
RuleOf(msg) ==
    CASE msg \in {"title is required", "title cannot be empty",
                  "Title is required", "Title cannot be empty"} -> "title_empty"
      [] msg \in {"title cannot exceed 255 characters",
                  "Title cannot exceed 255 characters"} -> "title_too_long"
      [] msg \in {"description cannot exceed 1000 characters",
                  "Description cannot exceed 1000 characters"} -> "description_too_long"
      [] OTHER -> msg

\* The description trimmed, an empty result kept as the empty string.
GoTrimDescriptionKeepingEmpty(d) ==
    IF IsSome(d) THEN Some(TrimSpace(Val(d))) ELSE None

\* strings.TrimSpace on a supplied description; the empty result becomes nil.
GoTrimDescription(d) ==
    IF IsSome(d) /\ TrimSpace(Val(d)) # <<>> THEN Some(TrimSpace(Val(d))) ELSE None

\* CreateTodoRequest.Completed is a plain bool: a missing field is false.
GoCompleted(c) == IF IsSome(c) THEN Val(c) ELSE FALSE

\* CreateTodo inserting before it validates.
GoCreateTodoInsertFirst(db, b, now) ==
    LET err == GoValidateCreateRequest(b)
        c == GoRepoCreate(db, TrimSpace(b.title), GoTrimDescription(b.description),
                          GoCompleted(b.completed), now)
    IN  IF err # "" THEN Out(c.db, Failure("Create", "service", 0, err, RuleOf(err)))
        ELSE Out(c.db, Entity("Create", "service", 0, c.todo))

\* CreateTodo storing the title as received.
GoCreateTodoUntrimmed(db, b, now) ==
    LET err == GoValidateCreateRequest(b) IN
    IF err # "" THEN Out(db, Failure("Create", "service", 0, err, RuleOf(err)))
    ELSE LET c == GoRepoCreate(db, b.title, GoTrimDescription(b.description),
                               GoCompleted(b.completed), now)
         IN  Out(c.db, Entity("Create", "service", 0, c.todo))

GoCreateTodo(db, b, now) ==
    LET err == GoValidateCreateRequest(b) IN
    IF err # "" THEN Out(db, Failure("Create", "service", 0, err, RuleOf(err)))
    ELSE LET c == GoRepoCreate(db, TrimSpace(b.title), GoTrimDescription(b.description),
                               GoCompleted(b.completed), now)
         IN  Out(c.db, Entity("Create", "service", 0, c.todo))

GoBuildUpdates(b) ==
    Updates(b.hasTitle, IF b.hasTitle THEN TrimSpace(b.title) ELSE <<>>,
            IsSome(b.description), GoTrimDescription(b.description), b.completed)

\* UpdateTodo with the existence check moved before the validation.
GoUpdateTodoExistenceFirst(db, id, b, now) ==
    IF id <= 0 THEN Out(db, Failure("Update", "service", 0, "invalid todo ID", "invalid_id"))
    ELSE IF ~GoRepoExists(db, id) THEN Out(db, Entity("Update", "service", 0, None))
    ELSE LET err == GoValidateUpdateRequest(b) IN
    IF err # "" THEN Out(db, Failure("Update", "service", 0, err, RuleOf(err)))
    ELSE LET u == GoRepoUpdate(db, id, GoBuildUpdates(b), now)
         IN  Out(u.db, Entity("Update", "service", 0, u.todo))

GoUpdateTodo(db, id, b, now) ==
    IF id <= 0 THEN Out(db, Failure("Update", "service", 0, "invalid todo ID", "invalid_id"))
    ELSE LET err == GoValidateUpdateRequest(b) IN
    IF err # "" THEN Out(db, Failure("Update", "service", 0, err, RuleOf(err)))
    ELSE IF ~GoRepoExists(db, id) THEN Out(db, Entity("Update", "service", 0, None))
    ELSE LET u == GoRepoUpdate(db, id, GoBuildUpdates(b), now)
         IN  Out(u.db, Entity("Update", "service", 0, u.todo))

GoGetTodoByID(db, id) ==
    IF id <= 0 THEN Out(db, Failure("GetByID", "service", 0, "invalid todo ID", "invalid_id"))
    ELSE Out(db, Entity("GetByID", "service", 0, GoRepoGetByID(db, id)))

\* DeleteTodo without the existence check: deleting an absent row succeeds.
GoDeleteTodoUnchecked(db, id) ==
    IF id <= 0 THEN Out(db, Failure("Delete", "service", 0, "invalid todo ID", "invalid_id"))
    ELSE Out(DeleteRow(db, id), Entity("Delete", "service", 0, None))

GoDeleteTodo(db, id) ==
    IF id <= 0 THEN Out(db, Failure("Delete", "service", 0, "invalid todo ID", "invalid_id"))
    ELSE IF ~GoRepoExists(db, id)
         THEN Out(db, Failure("Delete", "service", 0, "todo not found", "not_found"))
    ELSE LET d == GoRepoDelete(db, id) IN
         IF d.err # ""
         THEN Out(d.db, Failure("Delete", "service", 0, "failed to delete todo", "storage"))
         ELSE Out(d.db, Entity("Delete", "service", 0, None))

GoDeleteAllTodos(db) ==
    LET d == GoRepoDeleteAll(db) IN
    IF d.err # ""
    THEN Out(d.db, Failure("DeleteAll", "service", 0,
                           "failed to delete all todos: " \o d.err, "storage"))
    ELSE Out(d.db, Entity("DeleteAll", "service", 0, None))

(***************************************************************************)
(* Go back end: HTTP handlers                                              *)
(***************************************************************************)
AtHttp(r, code) == [r EXCEPT !.layer = "http", !.http = code]

GoHandlerCreateTodo(db, b, now) ==
    LET o == GoCreateTodo(db, b, now) IN
    Out(o.db, AtHttp(o.resp, IF o.resp.err # "" THEN 400 ELSE 201))

GoHandlerUpdateTodo(db, id, b, now) ==
    LET o == GoUpdateTodo(db, id, b, now) IN
    Out(o.db, IF o.resp.err # "" THEN AtHttp(o.resp, 400)
              ELSE IF o.resp.todo = None
                   THEN AtHttp([o.resp EXCEPT !.err = "Todo not found",
                                              !.rule = "not_found"], 404)
              ELSE AtHttp(o.resp, 200))

GoHandlerGetTodo(db, id) ==
    LET o == GoGetTodoByID(db, id) IN
    Out(o.db, IF o.resp.err # ""
              THEN AtHttp([o.resp EXCEPT !.err = "Failed to get todo"], 500)
              ELSE IF o.resp.todo = None
                   THEN AtHttp([o.resp EXCEPT !.err = "Todo not found",
                                              !.rule = "not_found"], 404)
              ELSE AtHttp(o.resp, 200))

GoHandlerDeleteTodo(db, id) ==
    LET o == GoDeleteTodo(db, id) IN
    Out(o.db, IF o.resp.err = "" THEN AtHttp(o.resp, 204)
              ELSE IF o.resp.err = "todo not found" THEN AtHttp(o.resp, 404)
              ELSE AtHttp([o.resp EXCEPT !.err = "Failed to delete todo"], 500))

(***************************************************************************)
(* Node back end: repository                                               *)
(***************************************************************************)
NodeFindById(db, id) == SelectById(db, id)

\* Todo.isValid() on the sanitized data handed over by the service.
NodeTodoIsValid(title, description) ==
    /\ TrimSpace(title) # <<>>
    /\ StrLen(title) <= TitleMax
    /\ (description = None \/ StrLen(Val(description)) <= DescriptionMax)

\* err "" on success.  An invalid todo reaches `throw new ValidationError`,
\* a name the repository file does not import: the catch block turns the
\* resulting ReferenceError into a DatabaseError.
NodeRepoCreate(db, title, description, completed, now) ==
    IF ~NodeTodoIsValid(title, description)
    THEN [db |-> db, todo |-> None, err |-> "Failed to create todo"]
    ELSE LET db2 == InsertTodo(db, title, description, completed, now)
         IN  [db |-> db2, todo |-> NodeFindById(db2, db2.seq), err |-> ""]

NodeRepoUpdate(db, id, u, now) ==
    IF NodeFindById(db, id) = None
    THEN [db |-> db, todo |-> None, err |-> "Todo not found"]
    ELSE IF NoUpdates(u)
    THEN [db |-> db, todo |-> NodeFindById(db, id), err |-> ""]
    ELSE LET db2 == UpdateTodoRow(db, id, u, now)
         IN  [db |-> db2, todo |-> NodeFindById(db2, id), err |-> ""]

NodeRepoDelete(db, id) ==
    IF NodeFindById(db, id) = None
    THEN [db |-> db, err |-> "Todo not found"]
    ELSE [db |-> DeleteRow(db, id), err |-> ""]

\* deleteAll: the response's total carries deletedCount.
NodeRepoDeleteAll(db) ==
    Out(Db({}, db.seq),
        [Entity("DeleteAll", "repository", 0, None)
            EXCEPT !.total = Cardinality(db.todos)])

(***************************************************************************)
(* Node back end: service                                                  *)
(***************************************************************************)
NodeValidateTodoData(b) ==
    IF TrimSpace(b.title) = <<>> THEN "Title is required"
    ELSE IF StrLen(b.title) > TitleMax THEN "Title cannot exceed 255 characters"
    ELSE IF IsSome(b.description) /\ StrLen(Val(b.description)) > DescriptionMax
         THEN "Description cannot exceed 1000 characters"
    ELSE ""

BodyIsEmpty(b) == ~b.hasTitle /\ ~IsSome(b.description) /\ ~IsSome(b.completed)

NodeValidateUpdateData(b) ==
    IF BodyIsEmpty(b) THEN "At least one field must be provided"
    ELSE IF b.hasTitle /\ TrimSpace(b.title) = <<>> THEN "Title cannot be empty"
    ELSE IF b.hasTitle /\ StrLen(b.title) > TitleMax
         THEN "Title cannot exceed 255 characters"
    ELSE IF IsSome(b.description) /\ StrLen(Val(b.description)) > DescriptionMax
         THEN "Description cannot exceed 1000 characters"
    ELSE ""

\* data.description?.trim() || null
NodeSanitizeDescription(d) ==
    IF IsSome(d) /\ TrimSpace(Val(d)) # <<>> THEN Some(TrimSpace(Val(d))) ELSE None

\* Boolean(data.completed): undefined is false.
NodeBoolean(c) == IF IsSome(c) THEN Val(c) ELSE FALSE

NodeSanitizeUpdateData(b) ==
    Updates(b.hasTitle, IF b.hasTitle THEN TrimSpace(b.title) ELSE <<>>,
            IsSome(b.description), NodeSanitizeDescription(b.description),
            b.completed)

NodeCreateTodo(db, b, now) ==
    LET err == NodeValidateTodoData(b) IN
    IF err # "" THEN Out(db, Failure("Create", "service", 400, err, RuleOf(err)))
    ELSE LET c == NodeRepoCreate(db, TrimSpace(b.title),
                                 NodeSanitizeDescription(b.description),
                                 NodeBoolean(b.completed), now)
         IN  IF c.err # ""
             THEN Out(c.db, Failure("Create", "service", 500, c.err, "storage"))
             ELSE Out(c.db, Entity("Create", "service", 0, c.todo))

NodeValidateId(id) == IF id <= 0 THEN "Invalid ID: must be a positive integer" ELSE ""

NodeUpdateTodo(db, id, b, now) ==
    IF NodeValidateId(id) # ""
    THEN Out(db, Failure("Update", "service", 400, NodeValidateId(id), "invalid_id"))
    ELSE LET err == NodeValidateUpdateData(b) IN
    IF err # "" THEN Out(db, Failure("Update", "service", 400, err, RuleOf(err)))
    ELSE LET u == NodeRepoUpdate(db, id, NodeSanitizeUpdateData(b), now) IN
         IF u.err # ""
         THEN Out(u.db, Failure("Update", "service", 404, u.err, "not_found"))
         ELSE Out(u.db, Entity("Update", "service", 0, u.todo))

NodeGetTodoById(db, id) ==
    IF NodeValidateId(id) # ""
    THEN Out(db, Failure("GetByID", "service", 400, NodeValidateId(id), "invalid_id"))
    ELSE IF NodeFindById(db, id) = None
         THEN Out(db, Failure("GetByID", "service", 404, "Todo not found", "not_found"))
    ELSE Out(db, Entity("GetByID", "service", 0, NodeFindById(db, id)))

NodeDeleteTodo(db, id) ==
    IF NodeValidateId(id) # ""
    THEN Out(db, Failure("Delete", "service", 400, NodeValidateId(id), "invalid_id"))
    ELSE LET d == NodeRepoDelete(db, id) IN
         IF d.err # ""
         THEN Out(d.db, Failure("Delete", "service", 404, d.err, "not_found"))
         ELSE Out(d.db, Entity("Delete", "service", 0, None))

(***************************************************************************)
(* Node back end: route schemas, Zod preHandlers, controller               *)
(***************************************************************************)
ValidationFailed(op, details) ==
    [NoResp EXCEPT !.op = op, !.layer = "http", !.http = 400,
                   !.err = "Validation failed", !.rule = details[1],
                   !.details = details]

\* The JSON schema of the route's body (title minLength 1, maxLength 255,
\* description maxLength 1000), checked before any preHandler; it stops at
\* the first failing keyword.
NodeRouteBodySchema(b) ==
    IF b.hasTitle /\ StrLen(b.title) < 1 THEN <<"title_empty">>
    ELSE IF b.hasTitle /\ StrLen(b.title) > TitleMax THEN <<"title_too_long">>
    ELSE IF IsSome(b.description) /\ StrLen(Val(b.description)) > DescriptionMax
         THEN <<"description_too_long">>
    ELSE <<>>

\* z.string().min(1).max(255).trim(): the length checks see the raw string,
\* every failing check is reported.
ZodTitleIssues(b) ==
    (IF b.hasTitle /\ StrLen(b.title) < 1 THEN <<"title_empty">> ELSE <<>>)
    \o (IF b.hasTitle /\ StrLen(b.title) > TitleMax THEN <<"title_too_long">> ELSE <<>>)

ZodDescriptionIssues(b) ==
    IF IsSome(b.description) /\ StrLen(Val(b.description)) > DescriptionMax
    THEN <<"description_too_long">> ELSE <<>>

ZodTrimmed(b, completed) ==
    Body(b.hasTitle, TrimSpace(b.title),
         IF IsSome(b.description) THEN Some(TrimSpace(Val(b.description))) ELSE None,
         completed)

\* CreateTodoSchema: [issues, parsed body]; completed defaults to false.
CreateTodoSchema(b) ==
    [issues |-> ZodTitleIssues(b) \o ZodDescriptionIssues(b),
     body |-> ZodTrimmed(b, Some(NodeBoolean(b.completed)))]

\* UpdateTodoSchema, with its refinement that some field is present.
UpdateTodoSchema(b) ==
    [issues |-> ZodTitleIssues(b) \o ZodDescriptionIssues(b)
                \o (IF BodyIsEmpty(b) THEN <<"no_fields">> ELSE <<>>),
     body |-> ZodTrimmed(b, b.completed)]

\* IdSchema: z.coerce.number().int().positive()
IdSchema(id) == IF id > 0 THEN <<>> ELSE <<"invalid_id">>

\* errorHandler: an AppError answers with its own status code and message.
NodeReply(o, success) ==
    Out(o.db, AtHttp(o.resp, IF o.resp.err # "" THEN o.resp.http ELSE success))

NodeRouteCreateTodo(db, b, now) ==
    IF NodeRouteBodySchema(b) # <<>>
    THEN Out(db, ValidationFailed("Create", NodeRouteBodySchema(b)))
    ELSE IF CreateTodoSchema(b).issues # <<>>
    THEN Out(db, ValidationFailed("Create", CreateTodoSchema(b).issues))
    ELSE NodeReply(NodeCreateTodo(db, CreateTodoSchema(b).body, now), 201)

NodeRouteUpdateTodo(db, id, b, now) ==
    IF NodeRouteBodySchema(b) # <<>>
    THEN Out(db, ValidationFailed("Update", NodeRouteBodySchema(b)))
    ELSE IF IdSchema(id) # <<>>
    THEN Out(db, ValidationFailed("Update", IdSchema(id)))
    ELSE IF UpdateTodoSchema(b).issues # <<>>
    THEN Out(db, ValidationFailed("Update", UpdateTodoSchema(b).issues))
    ELSE NodeReply(NodeUpdateTodo(db, id, UpdateTodoSchema(b).body, now), 200)

NodeRouteGetTodo(db, id) ==
    IF IdSchema(id) # <<>> THEN Out(db, ValidationFailed("GetByID", IdSchema(id)))
    ELSE NodeReply(NodeGetTodoById(db, id), 200)

NodeRouteDeleteTodo(db, id) ==
    IF IdSchema(id) # <<>> THEN Out(db, ValidationFailed("Delete", IdSchema(id)))
    ELSE NodeReply(NodeDeleteTodo(db, id), 204)

(***************************************************************************)
(* SQLite: LIKE, comparison of column values, ORDER BY ... LIMIT ... OFFSET *)
(***************************************************************************)
RECURSIVE Expand(_)
Expand(s) ==
    IF s = <<>> THEN <<>>
    ELSE [i \in 1..Head(s).n |-> Head(s).c] \o Expand(Tail(s))

\* LIKE folds the case of ASCII letters.
Lower(c) == IF c = "A" THEN "a" ELSE IF c = "B" THEN "b" ELSE c

\* p LIKE-matches t: % is any run of characters, _ any one character.
RECURSIVE LikeMatch(_, _)
LikeMatch(p, t) ==
    IF p = <<>> THEN t = <<>>
    ELSE IF Head(p) = "%"
         THEN LikeMatch(Tail(p), t) \/ (t # <<>> /\ LikeMatch(p, Tail(t)))
    ELSE /\ t # <<>>
         /\ (Head(p) = "_" \/ Lower(Head(p)) = Lower(Head(t)))
         /\ LikeMatch(Tail(p), Tail(t))

\* column LIKE '%' || search || '%'; a NULL column never matches.
Like(column, search) ==
    /\ IsSome(column)
    /\ LikeMatch(<<"%">> \o Expand(search) \o <<"%">>, Expand(Val(column)))

CharCode(c) ==
    CASE c = " " -> 32 [] c = "%" -> 37 [] c = "A" -> 65 [] c = "B" -> 66
      [] c = "_" -> 95 [] c = "a" -> 97 [] c = "b" -> 98 [] OTHER -> 127

\* s < t in the BINARY collation.
RECURSIVE StrLess(_, _)
StrLess(s, t) ==
    IF t = <<>> THEN FALSE
    ELSE IF s = <<>> THEN TRUE
    ELSE LET a == Head(s)
             b == Head(t)
         IN  IF a.c # b.c THEN CharCode(a.c) < CharCode(b.c)
             ELSE IF a.n = b.n THEN StrLess(Tail(s), Tail(t))
             ELSE IF a.n < b.n
                  THEN StrLess(Tail(s), <<Run(b.c, b.n - a.n)>> \o Tail(t))
             ELSE StrLess(<<Run(a.c, a.n - b.n)>> \o Tail(s), Tail(t))

\* x sorts strictly before y on column `field`, ascending.
KeyLess(field, x, y) ==
    CASE field = "id" -> x.id < y.id
      [] field = "title" -> StrLess(x.title, y.title)
      [] field = "completed" -> ~x.completed /\ y.completed
      [] field = "created_at" -> x.created_at < y.created_at
      [] field = "updated_at" -> x.updated_at < y.updated_at
      [] OTHER -> FALSE

\* The order in which rows with equal sort keys come out is not fixed by the
\* statement: they come in rowid order or in reverse rowid order, as the
\* scan the planner picks visits them.
TieOrders == {"rowid_asc", "rowid_desc"}

Before(field, order, tie, x, y) ==
    IF KeyLess(field, x, y) THEN order = "ASC"
    ELSE IF KeyLess(field, y, x) THEN order = "DESC"
    ELSE IF tie = "rowid_asc" THEN x.id < y.id ELSE x.id > y.id

OrderBy(rows, field, order, tie) ==
    LET rank == [r \in rows |->
                    Cardinality({x \in rows : Before(field, order, tie, x, r)})]
    IN  [i \in 1..Cardinality(rows) |-> CHOOSE r \in rows : rank[r] = i - 1]

Min(a, b) == IF a < b THEN a ELSE b

\* LIMIT/OFFSET with the offset of the following page.
LimitOffsetNextPage(sorted, limit, offset) ==
    IF offset + limit >= Len(sorted) THEN <<>>
    ELSE SubSeq(sorted, offset + limit + 1, Min(offset + 2 * limit, Len(sorted)))

LimitOffset(sorted, limit, offset) ==
    IF offset >= Len(sorted) THEN <<>>
    ELSE SubSeq(sorted, offset + 1, Min(offset + limit, Len(sorted)))

\* WHERE without the completed condition.
WhereAnyCompleted(rows, search, completed) ==
    {r \in rows :
        search = <<>> \/ Like(Some(r.title), search) \/ Like(r.description, search)}

\* WHERE (title LIKE ? OR description LIKE ?) AND completed = ?
Where(rows, search, completed) ==
    {r \in rows :
        /\ search = <<>> \/ Like(Some(r.title), search) \/ Like(r.description, search)
        /\ completed = None \/ r.completed = Val(completed)}

ToUpper(order) ==
    CASE order = "asc" -> "ASC" [] order = "desc" -> "DESC" [] OTHER -> order

ListResult(op, layer, q, tie, data, total, totalPages) ==
    [NoResp EXCEPT !.op = op, !.layer = layer, !.hasList = TRUE, !.data = data,
                   !.total = total, !.page = q.page, !.per_page = q.per_page,
                   !.total_pages = totalPages, !.q = q, !.tie = tie]

(***************************************************************************)
(* Go back end: List and Stats                                             *)
(***************************************************************************)
\* GetAll reporting the length of the page as the total.
GoRepoGetAllCountingPage(db, q, tie) ==
    LET matching == Where(db.todos, q.search, q.completed)
        offset == (q.page - 1) * q.per_page
        rows == LimitOffset(OrderBy(matching, q.sort, ToUpper(q.order), tie),
                            q.per_page, offset)
    IN  [todos |-> rows, total |-> Len(rows)]

GoRepoGetAll(db, q, tie) ==
    LET matching == Where(db.todos, q.search, q.completed)
        total == Cardinality(matching)
        offset == (q.page - 1) * q.per_page
    IN  [todos |-> LimitOffset(OrderBy(matching, q.sort, ToUpper(q.order), tie),
                               q.per_page, offset),
         total |-> total]

ValidSortFields == {"id", "title", "completed", "created_at", "updated_at"}

\* The params after "Validate and set defaults".
GoDefaults(q) ==
    [q EXCEPT !.page = IF @ < 1 THEN DefaultPage ELSE @,
              !.per_page = IF @ < 1 \/ @ > PerPageMax THEN DefaultPerPage ELSE @,
              !.sort = IF @ = "" THEN "created_at" ELSE @,
              !.order = IF @ = "" THEN "desc" ELSE @]

GoGetTodos(db, q0, tie) ==
    LET q == GoDefaults(q0) IN
    IF q.sort \notin ValidSortFields
    THEN [Failure("List", "service", 0, "invalid sort field", "invalid_sort")
            EXCEPT !.q = q0]
    ELSE IF q.order \notin {"asc", "desc"}
    THEN [Failure("List", "service", 0, "invalid order", "invalid_order")
            EXCEPT !.q = q0]
    ELSE LET got == GoRepoGetAll(db, q, tie)
             totalPages == (got.total + q.per_page - 1) \div q.per_page
         IN  [ListResult("List", "service", q, tie, got.todos, got.total, totalPages)
                EXCEPT !.q = q0]

GoGetTodoStats(db, tie) ==
    LET r == GoGetTodos(db, Query(1, StatsPerPage, "created_at", "desc", <<>>, None), tie)
        done == {i \in 1..Len(r.data) : r.data[i].completed}
    IN  IF r.err # "" THEN [r EXCEPT !.op = "Stats"]
        ELSE [NoResp EXCEPT !.op = "Stats", !.layer = "service", !.tie = tie,
                !.stats = [total |-> r.total, completed |-> Cardinality(done),
                           pending |-> Len(r.data) - Cardinality(done)]]

\* strconv.ParseBool on the raw `completed` parameter; an unparsable value
\* leaves the filter unset.
GoParseCompleted(raw) ==
    IF raw \in {"1", "t", "T", "TRUE", "true", "True"} THEN Some(TRUE)
    ELSE IF raw \in {"0", "f", "F", "FALSE", "false", "False"} THEN Some(FALSE)
    ELSE None

\* hq is the query string: sort/order/search "" and completed "" are absent
\* parameters, completed is the raw text.
GoHandlerGetTodos(db, hq, tie) ==
    LET params ==
            Query(IF hq.page > 0 THEN hq.page ELSE DefaultPage,
                  IF hq.per_page > 0 /\ hq.per_page <= PerPageMax
                  THEN hq.per_page ELSE DefaultPerPage,
                  IF hq.sort # "" THEN hq.sort ELSE "created_at",
                  IF hq.order # "" THEN hq.order ELSE "desc",
                  hq.search, GoParseCompleted(hq.completed))
        r == GoGetTodos(db, params, tie)
    IN  [AtHttp(r, IF r.err # "" THEN 400 ELSE 200) EXCEPT !.q = hq]

GoHandlerGetTodoStats(db, tie) ==
    LET r == GoGetTodoStats(db, tie) IN
    IF r.err # "" THEN AtHttp([r EXCEPT !.err = "Failed to get statistics"], 500)
    ELSE AtHttp(r, 200)

(***************************************************************************)
(* Node back end: List and Stats                                           *)
(***************************************************************************)
\* Math.floor in place of Math.ceil.
Floor(a, b) == a \div b

Ceil(a, b) == (a + b - 1) \div b

NodeFindAll(db, q, tie) ==
    LET matching == Where(db.todos, q.search, q.completed)
        total == Cardinality(matching)
        offset == (q.page - 1) * q.per_page
    IN  [todos |-> LimitOffset(OrderBy(matching, q.sort, ToUpper(q.order), tie),
                               q.per_page, offset),
         total |-> total,
         total_pages |-> Ceil(total, q.per_page)]

\* validateQueryOptions: every out-of-range or unknown value is replaced by
\* its default.
NodeValidateQueryOptions(q) ==
    [q EXCEPT !.page = IF @ < 1 THEN DefaultPage ELSE @,
              !.per_page = IF @ < 1 \/ @ > PerPageMax THEN DefaultPerPage ELSE @,
              !.sort = IF @ \notin ValidSortFields THEN "created_at" ELSE @,
              !.order = IF @ \notin {"asc", "desc"} THEN "desc" ELSE @]

SearchMax == 255

NodeGetTodos(db, q0, tie) ==
    IF StrLen(q0.search) > SearchMax
    THEN [Failure("List", "service", 400, "Search query too long", "search_too_long")
            EXCEPT !.q = q0]
    ELSE LET q == NodeValidateQueryOptions(q0)
             got == NodeFindAll(db, q, tie)
         IN  [ListResult("List", "service", q, tie, got.todos, got.total,
                         got.total_pages) EXCEPT !.q = q0]

NodeGetStats(db) ==
    [total |-> Cardinality(db.todos),
     completed |-> Cardinality({r \in db.todos : r.completed}),
     pending |-> Cardinality({r \in db.todos : ~r.completed})]

NodeGetTodoStats(db) ==
    [NoResp EXCEPT !.op = "Stats", !.layer = "service", !.stats = NodeGetStats(db)]

\* The route's querystring schema, then QueryParamsSchema: page >= 1,
\* per_page in 1..100, sort and order from their enumerations, completed a
\* boolean ("true" / "false" are coerced by the schema before
\* z.coerce.boolean sees them).  <<>> when the query is accepted.
QueryParamsIssues(hq) ==
    (IF hq.page < 1 THEN <<"page_out_of_range">> ELSE <<>>)
    \o (IF hq.per_page < 1 \/ hq.per_page > PerPageMax
        THEN <<"per_page_out_of_range">> ELSE <<>>)
    \o (IF hq.sort # "" /\ hq.sort \notin ValidSortFields
        THEN <<"invalid_sort">> ELSE <<>>)
    \o (IF hq.order # "" /\ hq.order \notin {"asc", "desc"}
        THEN <<"invalid_order">> ELSE <<>>)
    \o (IF StrLen(hq.search) > SearchMax THEN <<"search_too_long">> ELSE <<>>)
    \o (IF hq.completed \notin {"", "true", "false"}
        THEN <<"invalid_completed">> ELSE <<>>)

QueryParamsSchema(hq) ==
    Query(hq.page, hq.per_page,
          IF hq.sort = "" THEN "created_at" ELSE hq.sort,
          IF hq.order = "" THEN "desc" ELSE hq.order,
          hq.search,
          IF hq.completed = "" THEN None ELSE Some(hq.completed = "true"))

NodeRouteGetTodos(db, hq, tie) ==
    IF QueryParamsIssues(hq) # <<>>
    THEN [ValidationFailed("List", QueryParamsIssues(hq)) EXCEPT !.q = hq]
    ELSE LET r == NodeGetTodos(db, QueryParamsSchema(hq), tie)
         IN  [AtHttp(r, IF r.err # "" THEN r.http ELSE 200) EXCEPT !.q = hq]

NodeRouteGetTodoStats(db) == AtHttp(NodeGetTodoStats(db), 200)

(***************************************************************************)
(* Inputs                                                                  *)
(***************************************************************************)
Layers == {"http", "service"}

Str(c, n) == IF n = 0 THEN <<>> ELSE <<Run(c, n)>>

Padded(c, n) == Str(" ", 1) \o Str(c, n) \o Str(" ", 1)

LongDescription == Some(Str("b", DescriptionMax + 1))

Completeds == { None, Some(TRUE), Some(FALSE) }

\* Bodies of the requests of the running system: a few of each kind, so that
\* behaviours of several requests stay enumerable; the bodies around the
\* limits are served one request at a time (see LimitCreateBodies).
CreateBodies ==
    { Body(TRUE, <<>>, None, None),
      Body(TRUE, Padded("a", 1), Some(Str("b", 1) \o Str(" ", 1)), None) }

UpdateBodies ==
    { NoBody,
      Body(TRUE, <<>>, None, None),
      Body(TRUE, Padded("b", 1), Some(Str(" ", 1)), Some(TRUE)) }

\* Titles and descriptions around the length limits.
LimitTitles ==
    { <<>>, Str(" ", 2), Str("a", 1), Padded("a", 1),
      Str("a", TitleMax), Str("a", TitleMax + 1),
      Padded("a", TitleMax - 2), Padded("a", TitleMax - 1), Padded("a", TitleMax),
      Str(" ", TitleMax + 1) }

LimitDescriptions ==
    { None, Some(Str(" ", 1)), Some(Str("b", DescriptionMax)),
      Some(Padded("b", DescriptionMax - 1)), LongDescription }

LimitCreateBodies ==
    { Body(TRUE, t, d, c) : t \in LimitTitles, d \in LimitDescriptions,
                            c \in {None, Some(TRUE)} }

LimitUpdateBodies ==
    { Body(TRUE, t, d, None) : t \in LimitTitles, d \in {None, LongDescription} }
    \cup { Body(FALSE, <<>>, d, c) : d \in LimitDescriptions, c \in {None, Some(TRUE)} }

Ids == 0..(MaxTodos + 1)

\* Query strings and service parameters of List.
Pages == 0..3

PerPages == {0, 1, 2, PerPageMax + 1}

SortOrders ==
    { <<f, o>> : f \in ValidSortFields, o \in {"asc", "desc"} }
    \cup { <<"", "">>, <<"bogus", "asc">>, <<"id", "bogus">>, <<"bogus", "bogus">> }

Searches == { <<>>, Str("a", 1) }

RawCompleteds == { "", "true", "false", "yes" }

ServiceQueries ==
    { Query(p, pp, so[1], so[2], s, c) :
        p \in Pages, pp \in PerPages, so \in SortOrders, s \in Searches,
        c \in Completeds }

HttpQueries ==
    { Query(p, pp, so[1], so[2], s, c) :
        p \in Pages, pp \in PerPages, so \in SortOrders, s \in Searches,
        c \in RawCompleteds }

\* Search terms with letters of either case and with the characters LIKE
\* treats as wildcards.
SearchTerms ==
    { Str("a", 1), Str("b", 1), Str("A", 1) \o Str("b", 1),
      Str("_", 1), Str("%", 1), Str("a", 1) \o Str("_", 1) }

\* Requests in flight: a request that issues several statements gives way to
\* the other requests between two of them (goroutines in Go, awaits in Node).
CallIds == 1..MaxCalls

\* A call is idle until it starts, is "between" its two statements, and is
\* "done" with its answer in out; seen and read are the locals the first
\* statement filled in (a count, a row).
Idle ==
    [op |-> "none", pc |-> "idle", id |-> 0, q |-> NoQuery, seen |-> 0,
     read |-> None, out |-> NoResp]

(***************************************************************************)
(* The system: one back end, its table, the clock, the last response       *)
(***************************************************************************)
TheDb == Db(todos, seq)

Init ==
    /\ backend \in Backends
    /\ todos = {}
    /\ seq = 0
    /\ clock = 0
    /\ resp = NoResp
    /\ calls = [c \in CallIds |-> Idle]

\* Commit the outcome o of a request carrying body b for row id.
Commit(o, id, b) ==
    /\ todos' = o.db.todos
    /\ seq' = o.db.seq
    /\ resp' = [o.resp EXCEPT !.id = id, !.body = b]
    /\ UNCHANGED <<backend, clock, calls>>

\* One second passes.
Tick ==
    /\ clock < MaxClock
    /\ clock' = clock + 1
    /\ UNCHANGED <<backend, todos, seq, resp, calls>>

\* POST /api/todos, or CreateTodo called on the service.
GoCreateOf(bodies) ==
    /\ backend = "go"
    /\ \E layer \in Layers, b \in bodies :
          Commit(IF layer = "http" THEN GoHandlerCreateTodo(TheDb, b, clock)
                 ELSE GoCreateTodo(TheDb, b, clock), 0, b)

\* PUT /api/todos/:id, or UpdateTodo called on the service.
GoUpdateOf(ids, bodies) ==
    /\ backend = "go"
    /\ \E layer \in Layers, id \in ids, b \in bodies :
          Commit(IF layer = "http" THEN GoHandlerUpdateTodo(TheDb, id, b, clock)
                 ELSE GoUpdateTodo(TheDb, id, b, clock), id, b)

\* DELETE /api/todos/:id, or DeleteTodo called on the service.
GoDelete ==
    /\ backend = "go"
    /\ \E layer \in Layers, id \in Ids :
          Commit(IF layer = "http" THEN GoHandlerDeleteTodo(TheDb, id)
                 ELSE GoDeleteTodo(TheDb, id), id, NoBody)

\* GET /api/todos/:id, or GetTodoByID called on the service.
GoGet ==
    /\ backend = "go"
    /\ \E layer \in Layers, id \in Ids :
          Commit(IF layer = "http" THEN GoHandlerGetTodo(TheDb, id)
                 ELSE GoGetTodoByID(TheDb, id), id, NoBody)

NodeCreateOf(bodies) ==
    /\ backend = "node"
    /\ \E layer \in Layers, b \in bodies :
          Commit(IF layer = "http" THEN NodeRouteCreateTodo(TheDb, b, clock)
                 ELSE NodeCreateTodo(TheDb, b, clock), 0, b)

NodeUpdateOf(ids, bodies) ==
    /\ backend = "node"
    /\ \E layer \in Layers, id \in ids, b \in bodies :
          Commit(IF layer = "http" THEN NodeRouteUpdateTodo(TheDb, id, b, clock)
                 ELSE NodeUpdateTodo(TheDb, id, b, clock), id, b)

NodeDelete ==
    /\ backend = "node"
    /\ \E layer \in Layers, id \in Ids :
          Commit(IF layer = "http" THEN NodeRouteDeleteTodo(TheDb, id)
                 ELSE NodeDeleteTodo(TheDb, id), id, NoBody)

NodeGet ==
    /\ backend = "node"
    /\ \E layer \in Layers, id \in Ids :
          Commit(IF layer = "http" THEN NodeRouteGetTodo(TheDb, id)
                 ELSE NodeGetTodoById(TheDb, id), id, NoBody)

\* DeleteAllTodos called on the service.
GoDeleteAll ==
    /\ backend = "go"
    /\ Commit(GoDeleteAllTodos(TheDb), 0, NoBody)

\* deleteAll called on the repository.
NodeDeleteAll ==
    /\ backend = "node"
    /\ Commit(NodeRepoDeleteAll(TheDb), 0, NoBody)

\* The id sequence is capped: no todo is created beyond MaxTodos.
GoCreate == seq < MaxTodos /\ GoCreateOf(CreateBodies)

GoUpdate == GoUpdateOf(Ids, UpdateBodies)

NodeCreate == seq < MaxTodos /\ NodeCreateOf(CreateBodies)

NodeUpdate == NodeUpdateOf(Ids, UpdateBodies)

Next ==
    \/ Tick
    \/ GoCreate
    \/ GoUpdate
    \/ GoDelete
    \/ GoGet
    \/ NodeCreate
    \/ NodeUpdate
    \/ NodeDelete
    \/ NodeGet
    \/ GoDeleteAll
    \/ NodeDeleteAll

Spec == Init /\ [][Next]_vars

(***************************************************************************)
(* Tables the program reaches by serving requests: n todos created two a   *)
(* second, then the first one completed.                                   *)
(***************************************************************************)
SeedBody(i) ==
    Body(TRUE,
         IF i % 2 = 1 THEN Padded("a", 1) ELSE Str("B", 1),
         IF i % 3 = 0 THEN Some(Str("A", 1) \o Str("b", 1)) ELSE None,
         Some(i % 2 = 0))

SeedClock(n) == (n + 1) \div 2

ServiceCreate(be, db, b, now) ==
    IF be = "go" THEN GoCreateTodo(db, b, now) ELSE NodeCreateTodo(db, b, now)

ServiceUpdate(be, db, id, b, now) ==
    IF be = "go" THEN GoUpdateTodo(db, id, b, now) ELSE NodeUpdateTodo(db, id, b, now)

RECURSIVE Created(_, _)
Created(be, n) ==
    IF n = 0 THEN Db({}, 0)
    ELSE LET before == Created(be, n - 1)
         IN  IF before.seq = n - 1
             THEN ServiceCreate(be, before, SeedBody(n), (n - 1) \div 2).db
             ELSE before

Seeded(be, n) ==
    IF n = 0 THEN Created(be, 0)
    ELSE ServiceUpdate(be, Created(be, n), 1, Body(FALSE, <<>>, None, Some(TRUE)),
                       SeedClock(n)).db

SeedSizes == {0, SeedRows, DefaultPerPage + 1}

InitSeeded(sizes) ==
    /\ backend \in Backends
    /\ \E n \in sizes :
          /\ todos = Seeded(backend, n).todos
          /\ seq = Seeded(backend, n).seq
          /\ clock = SeedClock(n)
    /\ resp = NoResp
    /\ calls = [c \in CallIds |-> Idle]

(***************************************************************************)
(* One List or Stats served from such a table                              *)
(***************************************************************************)
\* Each behaviour serves one request from the seeded table.
FirstRequest == resp.op = "none"

Answer(r) ==
    /\ FirstRequest
    /\ resp' = r
    /\ UNCHANGED <<backend, todos, seq, clock, calls>>

\* GET /api/todos, or GetTodos called on the service.
GoList ==
    /\ backend = "go"
    /\ \E tie \in TieOrders :
          \/ \E q \in ServiceQueries : Answer(GoGetTodos(TheDb, q, tie))
          \/ \E hq \in HttpQueries : Answer(GoHandlerGetTodos(TheDb, hq, tie))

\* GET /api/todos/stats, or GetTodoStats called on the service.
GoStats ==
    /\ backend = "go"
    /\ \E tie \in TieOrders, layer \in Layers :
          Answer(IF layer = "http" THEN GoHandlerGetTodoStats(TheDb, tie)
                 ELSE GoGetTodoStats(TheDb, tie))

NodeList ==
    /\ backend = "node"
    /\ \E tie \in TieOrders :
          \/ \E q \in ServiceQueries : Answer(NodeGetTodos(TheDb, q, tie))
          \/ \E hq \in HttpQueries : Answer(NodeRouteGetTodos(TheDb, hq, tie))

NodeStats ==
    /\ backend = "node"
    /\ \E layer \in Layers :
          Answer(IF layer = "http" THEN NodeRouteGetTodoStats(TheDb)
                 ELSE NodeGetTodoStats(TheDb))

NextQuery ==
    \/ GoList
    \/ GoStats
    \/ NodeList
    \/ NodeStats

SpecQuery == InitSeeded(SeedSizes) /\ [][NextQuery]_vars

(***************************************************************************)
(* One Create or Update, with bodies around the limits, on such a table    *)
(***************************************************************************)
GoCreateLimit == FirstRequest /\ GoCreateOf(LimitCreateBodies)

GoUpdateLimit == FirstRequest /\ GoUpdateOf({0, 1, SeedRows + 1}, LimitUpdateBodies)

NodeCreateLimit == FirstRequest /\ NodeCreateOf(LimitCreateBodies)

NodeUpdateLimit == FirstRequest /\ NodeUpdateOf({0, 1, SeedRows + 1}, LimitUpdateBodies)

NextLimit ==
    \/ GoCreateLimit
    \/ GoUpdateLimit
    \/ NodeCreateLimit
    \/ NodeUpdateLimit

SpecLimit == InitSeeded({0, SeedRows}) /\ [][NextLimit]_vars

(***************************************************************************)
(* Requests running concurrently on a seeded table                         *)
(*                                                                         *)
(* Every SQL statement is atomic; a request that issues two statements     *)
(* can have statements of other requests between them: neither back end    *)
(* opens a transaction.                                                    *)
(***************************************************************************)
\* DELETE /api/todos/:id.  First the existence check (Go: repo.Exists in the
\* service; Node: findById in the repository), then the DELETE statement and
\* the test of the rows it affected.
ConcDelete(c) ==
    \/ /\ calls[c].pc = "idle"
       /\ \E id \in 1..2 :
             calls' = [calls EXCEPT ![c] =
                 IF SelectById(TheDb, id) # None
                 THEN [Idle EXCEPT !.op = "Delete", !.pc = "between", !.id = id]
                 ELSE [Idle EXCEPT !.op = "Delete", !.pc = "done", !.id = id,
                          !.out = IF backend = "go"
                                  THEN GoHandlerDeleteTodo(TheDb, id).resp
                                  ELSE NodeRouteDeleteTodo(TheDb, id).resp]]
       /\ UNCHANGED <<backend, todos, seq, clock, resp>>
    \/ /\ calls[c].op = "Delete" /\ calls[c].pc = "between"
       /\ LET id == calls[c].id
              o  == IF SelectById(TheDb, id) # None
                    THEN IF backend = "go" THEN GoHandlerDeleteTodo(TheDb, id)
                         ELSE NodeRouteDeleteTodo(TheDb, id)
                    \* no row affected: Go's repository error is wrapped as
                    \* "failed to delete todo: ..." and the handler, which
                    \* compares the whole message, answers 500; Node's
                    \* repository throws NotFoundError.
                    ELSE IF backend = "go"
                    THEN Out(TheDb, AtHttp(Failure("Delete", "service", 0,
                                           "Failed to delete todo", "storage"), 500))
                    ELSE NodeReply(Out(TheDb, Failure("Delete", "service", 404,
                                                  "Todo not found", "not_found")), 204)
          IN  /\ todos' = o.db.todos
              /\ calls' = [calls EXCEPT ![c].pc = "done", ![c].out = o.resp]
       /\ UNCHANGED <<backend, seq, clock, resp>>

\* deleteAll reporting the count it read first instead of result.changes.
ConcDeleteAllReportingCount(c) ==
    \/ /\ calls[c].pc = "idle" /\ backend = "go"
       /\ LET o == GoDeleteAllTodos(TheDb) IN
          /\ todos' = o.db.todos
          /\ calls' = [calls EXCEPT ![c] =
                          [Idle EXCEPT !.op = "DeleteAll", !.pc = "done", !.out = o.resp]]
       /\ UNCHANGED <<backend, seq, clock, resp>>
    \/ /\ calls[c].pc = "idle" /\ backend = "node"
       /\ calls' = [calls EXCEPT ![c] =
             IF todos = {}
             THEN [Idle EXCEPT !.op = "DeleteAll", !.pc = "done",
                               !.out = NodeRepoDeleteAll(TheDb).resp]
             ELSE [Idle EXCEPT !.op = "DeleteAll", !.pc = "between",
                               !.seen = Cardinality(todos)]]
       /\ UNCHANGED <<backend, todos, seq, clock, resp>>
    \/ /\ calls[c].op = "DeleteAll" /\ calls[c].pc = "between"
       /\ LET o == NodeRepoDeleteAll(TheDb) IN
          /\ todos' = o.db.todos
          /\ calls' = [calls EXCEPT ![c].pc = "done",
                          ![c].out = [o.resp EXCEPT !.total = calls[c].seen]]
       /\ UNCHANGED <<backend, seq, clock, resp>>

\* DeleteAll.  Go: one DELETE statement.  Node: SELECT COUNT(*), return at
\* once when it is 0, else DELETE FROM todos and report result.changes.
ConcDeleteAll(c) ==
    \/ /\ calls[c].pc = "idle" /\ backend = "go"
       /\ LET o == GoDeleteAllTodos(TheDb) IN
          /\ todos' = o.db.todos
          /\ calls' = [calls EXCEPT ![c] =
                          [Idle EXCEPT !.op = "DeleteAll", !.pc = "done", !.out = o.resp]]
       /\ UNCHANGED <<backend, seq, clock, resp>>
    \/ /\ calls[c].pc = "idle" /\ backend = "node"
       /\ calls' = [calls EXCEPT ![c] =
             IF todos = {}
             THEN [Idle EXCEPT !.op = "DeleteAll", !.pc = "done",
                               !.out = NodeRepoDeleteAll(TheDb).resp]
             ELSE [Idle EXCEPT !.op = "DeleteAll", !.pc = "between",
                               !.seen = Cardinality(todos)]]
       /\ UNCHANGED <<backend, todos, seq, clock, resp>>
    \/ /\ calls[c].op = "DeleteAll" /\ calls[c].pc = "between"
       /\ LET o == NodeRepoDeleteAll(TheDb) IN
          /\ todos' = o.db.todos
          /\ calls' = [calls EXCEPT ![c].pc = "done", ![c].out = o.resp]
       /\ UNCHANGED <<backend, seq, clock, resp>>

\* GetTodos on the service.  First SELECT COUNT(*) ... WHERE, whose result is
\* the total of the answer, then SELECT ... WHERE ... ORDER BY ... LIMIT,
\* whose rows are its data: the answer is that of a List served at the second
\* statement, with the total (and the pages computed from it) of the first.
ConcList(c) ==
    \/ /\ calls[c].pc = "idle"
       /\ \E pp \in {2, DefaultPerPage} :
             LET q == Query(DefaultPage, pp, "id", "asc", <<>>, None)
                 r == IF backend = "go" THEN GoGetTodos(TheDb, q, "rowid_asc")
                      ELSE NodeGetTodos(TheDb, q, "rowid_asc")
             IN  calls' = [calls EXCEPT ![c] =
                     [Idle EXCEPT !.op = "List", !.pc = "between", !.q = q,
                                  !.seen = r.total]]
       /\ UNCHANGED <<backend, todos, seq, clock, resp>>
    \/ /\ calls[c].op = "List" /\ calls[c].pc = "between"
       /\ LET q == calls[c].q
              r == IF backend = "go" THEN GoGetTodos(TheDb, q, "rowid_asc")
                   ELSE NodeGetTodos(TheDb, q, "rowid_asc")
          IN  calls' = [calls EXCEPT ![c].pc = "done",
                           ![c].out = [r EXCEPT !.total = calls[c].seen,
                                                !.total_pages =
                                                    (calls[c].seen + q.per_page - 1)
                                                        \div q.per_page]]
       /\ UNCHANGED <<backend, todos, seq, clock, resp>>

\* PATCH /api/todos/:id/toggle (Node only): toggleTodoCompletion reads the
\* todo with findById, then calls repository.update with the negation of the
\* completed it read.
ConcToggle(c) ==
    \/ /\ calls[c].pc = "idle" /\ backend = "node"
       /\ \E id \in {1} :
             calls' = [calls EXCEPT ![c] =
                 IF NodeFindById(TheDb, id) # None
                 THEN [Idle EXCEPT !.op = "Toggle", !.pc = "between", !.id = id,
                                   !.read = NodeFindById(TheDb, id)]
                 ELSE [Idle EXCEPT !.op = "Toggle", !.pc = "done", !.id = id,
                          !.out = AtHttp(Failure("Toggle", "service", 404,
                                                 "Todo not found", "not_found"), 404)]]
       /\ UNCHANGED <<backend, todos, seq, clock, resp>>
    \/ /\ calls[c].op = "Toggle" /\ calls[c].pc = "between"
       /\ LET u == NodeRepoUpdate(TheDb, calls[c].id,
                                  Updates(FALSE, <<>>, FALSE, None,
                                          Some(~Val(calls[c].read).completed)),
                                  clock)
          IN  /\ todos' = u.db.todos
              /\ calls' = [calls EXCEPT ![c].pc = "done",
                              ![c].out = IF u.err # ""
                                         THEN AtHttp(Failure("Toggle", "service", 404,
                                                             u.err, "not_found"), 404)
                                         ELSE AtHttp(Entity("Toggle", "service", 0,
                                                            u.todo), 200)]
       /\ UNCHANGED <<backend, seq, clock, resp>>

NextConc ==
    \/ \E c \in CallIds : ConcDelete(c)
    \/ \E c \in CallIds : ConcDeleteAll(c)
    \/ \E c \in CallIds : ConcList(c)
    \/ \E c \in CallIds : ConcToggle(c)

SpecConc == InitSeeded({SeedRows}) /\ [][NextConc]_vars

(***************************************************************************)
(* One request whose first SQL statement fails in the database driver      *)
(***************************************************************************)
\* Error texts of the driver.
DbErrors == {"database is locked", "disk I/O error"}

\* Go: the repository and the service each wrap the driver's error with %w,
\* so its text stays in the message.  The List, Create and Update handlers
\* answer every service error with 400 and err.Error(); the Delete handler
\* answers 500 "Failed to delete todo".
GoOnStorageError(op, layer, e) ==
    LET err == CASE op = "List" ->
                      "failed to get todos: failed to count todos: " \o e
                 [] op = "Create" ->
                      "failed to create todo: failed to create todo: " \o e
                 [] OTHER ->
                      "failed to check todo existence: failed to check todo existence: "
                          \o e
        r == Failure(op, "service", 0, err, "storage")
    IN  IF layer = "service" THEN r
        ELSE IF op = "Delete" THEN AtHttp([r EXCEPT !.err = "Failed to delete todo"], 500)
        ELSE AtHttp(r, 400)

\* Node: the repository throws DatabaseError(<fixed message>, error), an
\* AppError with statusCode 500, which the error handler formats without the
\* original error.
NodeOnStorageError(op, layer, e) ==
    LET err == CASE op = "List" -> "Failed to retrieve todos"
                 [] op = "Create" -> "Failed to create todo"
                 [] op = "Update" -> "Failed to update todo"
                 [] OTHER -> "Failed to delete todo"
        r == Failure(op, "service", 500, err, "storage")
    IN  IF layer = "service" THEN r ELSE AtHttp(r, 500)

\* A List, or a Create, Update or Delete that passes validation, while the
\* database fails.
StorageFault ==
    \E layer \in Layers, e \in DbErrors :
        LET fault(op) == IF backend = "go" THEN GoOnStorageError(op, layer, e)
                         ELSE NodeOnStorageError(op, layer, e)
        IN  \/ Answer(fault("List"))
            \/ \E b \in LimitCreateBodies :
                  /\ ServiceCreate(backend, TheDb, b, clock).resp.err = ""
                  /\ Answer([fault("Create") EXCEPT !.body = b])
            \/ \E id \in 1..(SeedRows + 1), c \in {TRUE, FALSE} :
                  Answer([fault("Update") EXCEPT
                             !.id = id, !.body = Body(FALSE, <<>>, None, Some(c))])
            \/ \E id \in 1..(SeedRows + 1) :
                  Answer([fault("Delete") EXCEPT !.id = id])

SpecFault == InitSeeded({0, SeedRows}) /\ [][StorageFault]_vars

(***************************************************************************)
(* One List with a search term on a seeded table                           *)
(***************************************************************************)
\* GET /api/todos?search=..., or GetTodos called on the service, first page.
ListSearch ==
    \E tie \in TieOrders, layer \in Layers, s \in SearchTerms,
       so \in {<<"id", "asc">>, <<"title", "desc">>} :
        LET q == Query(DefaultPage, DefaultPerPage, so[1], so[2], s,
                       IF layer = "http" THEN "" ELSE None)
        IN  Answer(IF backend = "go"
                   THEN IF layer = "http" THEN GoHandlerGetTodos(TheDb, q, tie)
                        ELSE GoGetTodos(TheDb, q, tie)
                   ELSE IF layer = "http" THEN NodeRouteGetTodos(TheDb, q, tie)
                        ELSE NodeGetTodos(TheDb, q, tie))

SpecSearch == InitSeeded({0, SeedRows}) /\ [][ListSearch]_vars

(***************************************************************************)
(* Properties of List and Stats                                            *)
(***************************************************************************)
ListServed == resp.op = "List" /\ resp.hasList

Rows(seq0) == {seq0[i] : i \in 1..Len(seq0)}

Max(a, b) == IF a > b THEN a ELSE b

\* The completed filter a request asks for: the service takes an optional
\* boolean, the query string the text "true" or "false".
CompletedOf(layer, q) ==
    IF layer = "service" THEN q.completed
    ELSE IF q.completed = "true" THEN Some(TRUE)
    ELSE IF q.completed = "false" THEN Some(FALSE)
    ELSE None

WithCompleted(layer, q, v) ==
    [q EXCEPT !.completed =
        IF layer = "service" THEN Some(v) ELSE IF v THEN "true" ELSE "false"]

SortOf(q) == IF q.sort = "" THEN "created_at" ELSE q.sort

OrderOf(q) == IF q.order = "" THEN "desc" ELSE q.order

SortRequestValid(q) ==
    SortOf(q) \in ValidSortFields /\ OrderOf(q) \in {"asc", "desc"}

\* The List entry point of the running back end at the given layer.
ListCall(layer, q, tie) ==
    IF backend = "go"
    THEN IF layer = "http" THEN GoHandlerGetTodos(TheDb, q, tie)
         ELSE GoGetTodos(TheDb, q, tie)
    ELSE IF layer = "http" THEN NodeRouteGetTodos(TheDb, q, tie)
         ELSE NodeGetTodos(TheDb, q, tie)

\* s occurs in text, letter case ignored.
Fold(s) == [i \in 1..Len(Expand(s)) |-> Lower(Expand(s)[i])]

Contains(text, s) ==
    \E i \in 0..(Len(Fold(text)) - Len(Fold(s))) :
        SubSeq(Fold(text), i + 1, i + Len(Fold(s))) = Fold(s)

MatchesFilters(r, search, completed) ==
    /\ \/ search = <<>>
       \/ Contains(r.title, search)
       \/ IsSome(r.description) /\ Contains(Val(r.description), search)
    /\ ~IsSome(completed) \/ r.completed = Val(completed)

\* The stored todos that match the filters of the request just served.
Matched ==
    {r \in todos : MatchesFilters(r, resp.q.search, CompletedOf(resp.layer, resp.q))}

\* x comes before y in the order the request just served asks for.
SortsBefore(x, y) ==
    LET f == SortOf(resp.q)
        tieBefore == IF resp.tie = "rowid_asc" THEN x.id < y.id ELSE x.id > y.id
    IN  IF OrderOf(resp.q) = "asc"
        THEN KeyLess(f, x, y) \/ (~KeyLess(f, y, x) /\ tieBefore)
        ELSE KeyLess(f, y, x) \/ (~KeyLess(f, x, y) /\ tieBefore)

\* C1: after every successful Stats, completed + pending = total and total is
\* the number of stored todos, whatever the size of the store.
C1_StatsAddUp ==
    (resp.op = "Stats" /\ resp.err = "") =>
        /\ resp.stats.completed + resp.stats.pending = resp.stats.total
        /\ resp.stats.total = Cardinality(todos)

\* C2: a List filtered on completed returns only todos with that value of
\* completed, and for the same search and sort the two filtered Lists
\* together hold what the unfiltered List holds: their totals add up to its
\* total, and when it fits one page their rows are its rows.
C2_CompletedFilterSplitsList ==
    ListServed =>
        LET c == CompletedOf(resp.layer, resp.q) IN
        IF IsSome(c)
        THEN \A i \in 1..Len(resp.data) : resp.data[i].completed = Val(c)
        ELSE LET yes == ListCall(resp.layer, WithCompleted(resp.layer, resp.q, TRUE),
                                 resp.tie)
                 no == ListCall(resp.layer, WithCompleted(resp.layer, resp.q, FALSE),
                                resp.tie)
             IN  /\ yes.hasList /\ no.hasList
                 /\ \A i \in 1..Len(yes.data) : yes.data[i].completed
                 /\ \A i \in 1..Len(no.data) : ~no.data[i].completed
                 /\ yes.total + no.total = resp.total
                 /\ (resp.page = 1 /\ resp.total <= resp.per_page) =>
                        Rows(yes.data) \cup Rows(no.data) = Rows(resp.data)

C2_Witness ==
    /\ ListServed
    /\ CompletedOf(resp.layer, resp.q) = Some(TRUE)
    /\ Len(resp.data) > 0
    /\ \E r \in todos : ~r.completed /\ MatchesFilters(r, resp.q.search, None)

\* C3: the total of a List is the number of stored todos matching its search
\* and completed filters, so it is the same for every page and perPage.
C3_TotalCountsMatches ==
    ListServed => resp.total = Cardinality(Matched)

C3_Witness ==
    /\ ListServed
    /\ resp.q.search # <<>>
    /\ resp.page = 2
    /\ resp.per_page = 1
    /\ resp.total = 2
    /\ Len(resp.data) = 1
    /\ Cardinality(todos) > 2

\* C4: the data of a List are the rows at positions (page-1)*perPage+1 ..
\* page*perPage of the matching todos in the requested order: at most perPage
\* rows, none when (page-1)*perPage >= total.
C4_PageIsSliceOfSortedMatches ==
    ListServed =>
        LET offset == (resp.page - 1) * resp.per_page IN
        /\ Len(resp.data) <= resp.per_page
        /\ offset >= resp.total => resp.data = <<>>
        /\ Len(resp.data) = Min(resp.per_page, Max(0, Cardinality(Matched) - offset))
        /\ SortRequestValid(resp.q) =>
              \A i \in 1..Len(resp.data) :
                  /\ resp.data[i] \in Matched
                  /\ Cardinality({x \in Matched : SortsBefore(x, resp.data[i])})
                        = offset + i - 1

C4_Witness ==
    /\ ListServed
    /\ SortRequestValid(resp.q)
    /\ resp.page = 2
    /\ resp.per_page = 2
    /\ resp.total = 3
    /\ Len(resp.data) = 1

\* C5: a List echoes the page and perPage in effect and its total_pages is
\* ceil(total / perPage): 0 when total is 0, and the least number of pages
\* of perPage rows that hold total rows.
C5_EchoAndTotalPages ==
    ListServed =>
        /\ resp.page = (IF resp.q.page < 1 THEN DefaultPage ELSE resp.q.page)
        /\ resp.per_page = (IF resp.q.per_page < 1 \/ resp.q.per_page > PerPageMax
                            THEN DefaultPerPage ELSE resp.q.per_page)
        /\ resp.total = 0 => resp.total_pages = 0
        /\ resp.total_pages * resp.per_page >= resp.total
        /\ resp.total > 0 => (resp.total_pages - 1) * resp.per_page < resp.total

C5_Witness ==
    /\ ListServed
    /\ resp.total = 3
    /\ resp.per_page = 2
    /\ resp.total_pages = 2

\* C6: a List asking for a sort field outside {id, title, completed,
\* created_at, updated_at} or an order outside {asc, desc} fails and returns
\* no result.
C6_InvalidSortRejected ==
    (resp.op = "List" /\ ~SortRequestValid(resp.q)) =>
        resp.err # "" /\ ~resp.hasList

\* C7: a List asking for page < 1 or perPage outside 1..100 does not fail
\* and echoes page 1, respectively perPage 20.
C7_OutOfRangePagingDefaults ==
    (resp.op = "List" /\ SortRequestValid(resp.q)) =>
        /\ resp.q.page < 1 =>
              resp.err = "" /\ resp.hasList /\ resp.page = DefaultPage
        /\ (resp.q.per_page < 1 \/ resp.q.per_page > PerPageMax) =>
              resp.err = "" /\ resp.hasList /\ resp.per_page = DefaultPerPage

(***************************************************************************)
(* Properties of Create and of the validation of titles                    *)
(***************************************************************************)
\* t is raw without its leading and trailing spaces.
IsTrimOf(t, raw) ==
    LET e == Expand(raw)
        x == Expand(t)
    IN  /\ x # <<>> => x[1] # " " /\ x[Len(x)] # " "
        /\ \E i \in 0..(Len(e) - Len(x)) :
              \A k \in 1..Len(e) :
                  e[k] = IF k <= i \/ k > i + Len(x) THEN " " ELSE x[k - i]

HasInk(raw) == \E i \in 1..Len(raw) : raw[i].c # " " /\ raw[i].n > 0

TitleRejected == resp.rule \in {"title_empty", "title_too_long"}

\* The request just served put a title through validation, and nothing but
\* the title can have failed it: the description, if any, is within its limit.
TitleValidated ==
    /\ \/ resp.op = "Create"
       \/ resp.op = "Update" /\ resp.id > 0 /\ resp.body.hasTitle
    /\ IsSome(resp.body.description) =>
          StrLen(Val(resp.body.description)) <= DescriptionMax

\* C8: the entity a successful Create returns has id > 0, created_at =
\* updated_at, the input title without its leading and trailing spaces, and
\* completed as supplied, false when not supplied; it is the stored row.
C8_CreatedEntity ==
    (resp.op = "Create" /\ resp.err = "") =>
        /\ IsSome(resp.todo)
        /\ Val(resp.todo) \in todos
        /\ Val(resp.todo).id > 0
        /\ Val(resp.todo).created_at = Val(resp.todo).updated_at
        /\ IsTrimOf(Val(resp.todo).title, resp.body.title)
        /\ Val(resp.todo).completed =
              (IF IsSome(resp.body.completed) THEN Val(resp.body.completed) ELSE FALSE)

C8_Witness ==
    /\ resp.op = "Create"
    /\ resp.err = ""
    /\ resp.body.title = Padded("a", 1)
    /\ resp.body.completed = None
    /\ Val(resp.todo).title = Str("a", 1)
    /\ Val(resp.todo).id = SeedRows + 1

\* C9 as stated: a title is accepted exactly when its length after trimming
\* is between 1 and 255.
C9_AcceptedIffTrimmedLengthInRange ==
    TitleValidated =>
        (~TitleRejected <=>
            (StrLen(TrimSpace(resp.body.title)) >= 1
             /\ StrLen(TrimSpace(resp.body.title)) <= TitleMax))

\* C9 amended: a title is accepted exactly when it is not empty after
\* trimming and its length before trimming is at most 255.
C9_AcceptedIffInkAndRawLengthInRange ==
    TitleValidated =>
        (~TitleRejected <=>
            (HasInk(resp.body.title) /\ StrLen(resp.body.title) <= TitleMax))

C9_Witness ==
    /\ TitleValidated
    /\ resp.op = "Create"
    /\ resp.body.title = Padded("a", TitleMax - 1)
    /\ resp.rule = "title_too_long"
    /\ resp.todo = None

\* The rules a create body breaks, and the first of them in the order title
\* empty after trim, title longer than 255, description longer than 1000.
BrokenRules(b) ==
    (IF ~HasInk(b.title) THEN {"title_empty"} ELSE {})
    \cup (IF StrLen(b.title) > TitleMax THEN {"title_too_long"} ELSE {})
    \cup (IF IsSome(b.description) /\ StrLen(Val(b.description)) > DescriptionMax
          THEN {"description_too_long"} ELSE {})

FirstBrokenRule(b) ==
    IF "title_empty" \in BrokenRules(b) THEN "title_empty"
    ELSE IF "title_too_long" \in BrokenRules(b) THEN "title_too_long"
    ELSE "description_too_long"

\* C10: a Create whose input breaks several rules reports the first broken
\* rule in the order title empty after trim, title longer than 255,
\* description longer than 1000.
C10_FirstBrokenRuleReported ==
    (resp.op = "Create" /\ Cardinality(BrokenRules(resp.body)) >= 2) =>
        resp.rule = FirstBrokenRule(resp.body)

(***************************************************************************)
(* Properties of Update, Delete and of the stored rows                     *)
(***************************************************************************)
\* The rules whose breach is a validation error of a create or update body.
ValidationRules ==
    {"title_empty", "title_too_long", "description_too_long", "no_fields",
     "At least one field must be provided"}

StoredIds == {r.id : r \in todos}

\* C11: a Create or Update answered with a validation error leaves the table
\* as it was: no row added or modified (so no updated_at refreshed), no id
\* consumed.
C11_FailedValidationChangesNothing ==
    [][(resp'.op \in {"Create", "Update"} /\ resp'.rule \in ValidationRules)
          => (todos' = todos /\ seq' = seq)]_vars

C11_Witness ==
    /\ resp.op = "Create"
    /\ resp.body.title = Str("a", TitleMax + 1)
    /\ resp.rule = "title_too_long"
    /\ Cardinality(todos) = SeedRows
    /\ seq = SeedRows

\* C12: a successful Update(id, fields) keeps the id, the created_at and
\* every field not supplied of the todo with that id, and every other todo
\* of the table; no todo is added or removed and no id consumed.
C12_UpdateTouchesOnlySuppliedFields ==
    [][(resp'.op = "Update" /\ resp'.err = "" /\ IsSome(resp'.todo)) =>
          /\ \A r \in todos : r.id # resp'.id => r \in todos'
          /\ {r.id : r \in todos'} = StoredIds
          /\ Cardinality(todos') = Cardinality(todos)
          /\ seq' = seq
          /\ \E old \in todos, new \in todos' :
                /\ old.id = resp'.id
                /\ new.id = resp'.id
                /\ new = Val(resp'.todo)
                /\ new.created_at = old.created_at
                /\ ~resp'.body.hasTitle => new.title = old.title
                /\ ~IsSome(resp'.body.description) =>
                      new.description = old.description
                /\ ~IsSome(resp'.body.completed) => new.completed = old.completed]_vars

C12_Witness ==
    /\ resp.op = "Update"
    /\ resp.err = ""
    /\ IsSome(resp.todo)
    /\ ~resp.body.hasTitle
    /\ resp.body.description = Some(Str(" ", 1))
    /\ resp.body.completed = None
    /\ Val(resp.todo).title = Str("a", 1)
    /\ Val(resp.todo).completed
    /\ Cardinality(todos) = SeedRows

\* C13: an Update of a stored id that supplies no field is not an error: it
\* returns the stored todo and leaves the table, updated_at included, as it
\* was.
C13_EmptyUpdateIsNoOp ==
    [][(resp'.op = "Update" /\ BodyIsEmpty(resp'.body) /\ resp'.id \in StoredIds) =>
          /\ resp'.err = ""
          /\ IsSome(resp'.todo)
          /\ Val(resp'.todo) \in todos
          /\ Val(resp'.todo).id = resp'.id
          /\ todos' = todos]_vars

\* The step serves a request: time stands still while resp' is computed.
Served == clock' = clock

\* C14: every successful Update supplying at least one field leaves the
\* todo's updated_at strictly greater than it was before the call.
C14_UpdateAdvancesUpdatedAt ==
    [][(Served /\ resp'.op = "Update" /\ resp'.err = "" /\ IsSome(resp'.todo)
        /\ ~BodyIsEmpty(resp'.body)) =>
          \A old \in todos :
              old.id = resp'.id => Val(resp'.todo).updated_at > old.updated_at]_vars

\* Every supplied field of an Update body passes the rules of Create.
SuppliedFieldsValid(b) ==
    /\ b.hasTitle => HasInk(b.title) /\ StrLen(b.title) <= TitleMax
    /\ IsSome(b.description) => StrLen(Val(b.description)) <= DescriptionMax

\* The answer says the target is absent: the not-found error, or the Go
\* service's (nil, nil) of UpdateTodo and GetTodoByID.
AnswersNotFound(r) ==
    \/ r.rule = "not_found"
    \/ r.op \in {"Update", "GetByID"} /\ r.layer = "service" /\ r.err = "" /\ r.todo = None

UpdateOfMissingId == resp'.op = "Update" /\ resp'.id > 0 /\ resp'.id \notin StoredIds

DeletedIds == (1..seq) \ StoredIds

\* C16: a Delete succeeds only on a stored id and removes it; a removed id
\* stays removed whatever is served next (Create, Update, DeleteAll, reads),
\* and every Delete and GetByID of a removed id answers NotFound.
C16_DeletedStaysNotFound ==
    [][/\ (Served /\ resp'.op = "Delete" /\ resp'.err = "")
             => resp'.id \in StoredIds /\ resp'.id \notin {r.id : r \in todos'}
       /\ \A id \in DeletedIds : id \notin {r.id : r \in todos'}
       /\ (Served /\ resp'.op \in {"Delete", "GetByID"} /\ resp'.id \in DeletedIds)
             => AnswersNotFound(resp') /\ todos' = todos]_vars

C16_Witness ==
    /\ resp.op = "Delete" /\ resp.id = 1 /\ resp.id \in DeletedIds
    /\ AnswersNotFound(resp)
    /\ 2 \in StoredIds

\* C17: the id a Create assigns is larger than every id assigned before it,
\* so it differs from the ids of all todos stored or deleted (singly or by
\* DeleteAll); no other step assigns an id; stored ids are pairwise distinct.
C17_IdsNeverReused ==
    [][/\ \A r \in todos' : r.id \in 1..seq'
       /\ seq' >= seq
       /\ \A r \in todos' : r.id \in StoredIds \/ r.id > seq
       /\ (Served /\ resp'.op = "Create" /\ resp'.err = "")
             => /\ IsSome(resp'.todo)
                /\ Val(resp'.todo).id > seq
                /\ Val(resp'.todo).id \notin StoredIds \cup DeletedIds
       /\ Cardinality({r.id : r \in todos'}) = Cardinality(todos')]_vars

C17_Witness ==
    /\ resp.op = "Create" /\ resp.err = "" /\ IsSome(resp.todo)
    /\ Val(resp.todo).id = 2 /\ StoredIds = {2}

\* C18: every stored todo has a non-empty title that neither starts nor ends
\* with a space, and a description that is absent or non-empty; a Create or
\* Update that supplies an empty or all-space description stores it absent.
C18_StoredTextIsTrimmed ==
    /\ \A r \in todos :
          /\ StrLen(r.title) > 0
          /\ Expand(r.title)[1] # " "
          /\ Expand(r.title)[StrLen(r.title)] # " "
          /\ IsSome(r.description) => StrLen(Val(r.description)) > 0
    /\ (resp.op \in {"Create", "Update"} /\ resp.err = "" /\ IsSome(resp.todo)
        /\ IsSome(resp.body.description) /\ ~HasInk(Val(resp.body.description)))
          => Val(resp.todo) \in todos /\ Val(resp.todo).description = None

C18_Witness ==
    /\ resp.op = "Create" /\ resp.err = "" /\ IsSome(resp.todo)
    /\ resp.body.title = Padded("a", TitleMax - 2)
    /\ resp.body.description = Some(Str(" ", 1))
    /\ Val(resp.todo).title = Str("a", TitleMax - 2)
    /\ Val(resp.todo).description = None
    /\ Val(resp.todo) \in todos

\* C19: every stored todo has updated_at >= created_at, and no step changes
\* the created_at of a todo that stays stored.
C19_CreatedAtFixedAndNotAfterUpdatedAt ==
    [][/\ \A r \in todos' : r.updated_at >= r.created_at
       /\ \A old \in todos, new \in todos' :
             old.id = new.id => new.created_at = old.created_at]_vars

C19_Witness ==
    /\ resp.op = "Update" /\ resp.err = "" /\ IsSome(resp.todo)
    /\ Val(resp.todo) \in todos
    /\ Val(resp.todo).created_at = 0 /\ Val(resp.todo).updated_at = 1

\* C20: when a Create has succeeded and the next request served is GetByID
\* of the id it returned, GetByID succeeds with an entity equal in every field
\* to the one Create returned.
C20_CreateThenGetRoundTrip ==
    [][(/\ resp.op = "Create" /\ resp.err = "" /\ IsSome(resp.todo)
        /\ Served /\ resp'.op = "GetByID" /\ resp'.id = Val(resp.todo).id)
          => resp'.err = "" /\ resp'.todo = resp.todo]_vars

C20_Witness ==
    /\ resp.op = "GetByID" /\ resp.err = "" /\ IsSome(resp.todo)
    /\ resp.id = 2 /\ seq = 2 /\ clock = 1
    /\ Val(resp.todo).created_at = 1
    /\ Val(resp.todo).description = Some(Str("b", 1))
    /\ Val(resp.todo) \in todos

\* C21: a List with a search term that fits on its page returns exactly the
\* stored todos whose title contains the term or whose description contains
\* it (letter case ignored); a todo without description matches by its title.
C21_SearchReturnsTodosContainingTerm ==
    (ListServed /\ resp.q.search # <<>> /\ resp.page = 1
     /\ Cardinality(todos) <= resp.per_page)
        => /\ Rows(resp.data) = Matched
           /\ resp.total = Cardinality(Matched)

\* C22: in the data of a List, two rows with equal values of the sort field
\* come in ascending order of id, so the result is fixed by the store state.
C22_TiesBrokenByIdAscending ==
    (ListServed /\ SortRequestValid(resp.q)) =>
        \A i, j \in 1..Len(resp.data) :
            (/\ i < j
             /\ ~KeyLess(SortOf(resp.q), resp.data[i], resp.data[j])
             /\ ~KeyLess(SortOf(resp.q), resp.data[j], resp.data[i]))
                => resp.data[i].id < resp.data[j].id

\* C23: DeleteAll always succeeds and leaves the table empty; on an empty
\* table it reports success (with a count of 0 where a count is returned).
C23_DeleteAllNeverFails ==
    [][(Served /\ resp'.op = "DeleteAll") =>
          /\ resp'.err = ""
          /\ todos' = {}
          /\ backend = "node" => resp'.total = Cardinality(todos)]_vars

(***************************************************************************)
(* Properties of concurrent requests                                       *)
(***************************************************************************)
\* Call c returns in this step: its answer is calls'[c].out.
Returns(c, op) ==
    calls[c].pc # "done" /\ calls'[c].pc = "done" /\ calls'[c].op = op

C25_NonPositiveIdIsBadRequest ==
    [][(Served /\ resp'.op \in {"GetByID", "Update", "Delete"} /\ resp'.id <= 0) =>
          /\ resp'.err # ""
          /\ resp'.rule \notin {"not_found", "storage"}
          /\ resp'.layer = "http" => resp'.http = 400
          /\ todos' = todos /\ seq' = seq]_vars

\* C26: a request that fails in the database is answered 500 by the HTTP
\* layer, never 400, with a message that does not depend on the text of the
\* database error.
C26_StorageFailureIsGeneric500 ==
    (resp.rule = "storage" /\ resp.layer = "http") =>
        /\ resp.http = 500
        /\ \A e \in DbErrors :
              resp.err = (IF backend = "go"
                          THEN GoOnStorageError(resp.op, resp.layer, e).err
                          ELSE NodeOnStorageError(resp.op, resp.layer, e).err)

\* The answer of either back end to one request on the current table.
GoServe(op, layer, id, b) ==
    CASE op = "Create" -> IF layer = "http" THEN GoHandlerCreateTodo(TheDb, b, clock)
                          ELSE GoCreateTodo(TheDb, b, clock)
      [] op = "Update" -> IF layer = "http" THEN GoHandlerUpdateTodo(TheDb, id, b, clock)
                          ELSE GoUpdateTodo(TheDb, id, b, clock)
      [] op = "Delete" -> IF layer = "http" THEN GoHandlerDeleteTodo(TheDb, id)
                          ELSE GoDeleteTodo(TheDb, id)
      [] OTHER -> IF layer = "http" THEN GoHandlerGetTodo(TheDb, id)
                  ELSE GoGetTodoByID(TheDb, id)

NodeServe(op, layer, id, b) ==
    CASE op = "Create" -> IF layer = "http" THEN NodeRouteCreateTodo(TheDb, b, clock)
                          ELSE NodeCreateTodo(TheDb, b, clock)
      [] op = "Update" -> IF layer = "http" THEN NodeRouteUpdateTodo(TheDb, id, b, clock)
                          ELSE NodeUpdateTodo(TheDb, id, b, clock)
      [] op = "Delete" -> IF layer = "http" THEN NodeRouteDeleteTodo(TheDb, id)
                          ELSE NodeDeleteTodo(TheDb, id)
      [] OTHER -> IF layer = "http" THEN NodeRouteGetTodo(TheDb, id)
                  ELSE NodeGetTodoById(TheDb, id)

OutcomeClass(r) ==
    IF AnswersNotFound(r) THEN "not_found"
    ELSE IF r.err = "" THEN "success"
    ELSE "rejected"

\* C27: whatever the table holds, the two back ends answer the same Create,
\* GetByID, Update or Delete with the same outcome class and leave the same
\* table; so they agree along every sequence of requests.
C27_BackEndsAgree ==
    [][(Served /\ resp'.op \in {"Create", "GetByID", "Update", "Delete"}) =>
          LET g == GoServe(resp'.op, resp'.layer, resp'.id, resp'.body)
              n == NodeServe(resp'.op, resp'.layer, resp'.id, resp'.body)
          IN  /\ OutcomeClass(g.resp) = OutcomeClass(n.resp)
              /\ g.db = n.db]_vars

\* C28: of two Delete calls for the same id that have both returned, at most
\* one succeeded, and neither was answered 500 as a storage failure; the
\* loser of the race is answered 404 NotFound.
C28_ConcurrentDeletesOneWinsOtherNotFound ==
    \A c, d \in CallIds :
        (/\ c # d
         /\ calls[c].op = "Delete" /\ calls[c].pc = "done"
         /\ calls[d].op = "Delete" /\ calls[d].pc = "done"
         /\ calls[c].id = calls[d].id)
            => /\ calls[c].out.http # 500 /\ calls[c].out.rule # "storage"
               /\ ~(calls[c].out.err = "" /\ calls[d].out.err = "")
               /\ calls[c].out.err # "" => calls[c].out.http = 404

\* C29: the rows a List returns are as many as its own total allows:
\* min(perPage, max(0, total - (page - 1) * perPage)).
C29_PageLengthMatchesTotal ==
    \A c \in CallIds :
        (calls[c].op = "List" /\ calls[c].pc = "done" /\ calls[c].out.hasList) =>
            Len(calls[c].out.data) =
                Min(calls[c].out.per_page,
                    Max(0, calls[c].out.total
                             - (calls[c].out.page - 1) * calls[c].out.per_page))

\* C30: when every call is a Toggle of todo 1 that has returned successfully
\* (so nothing else wrote), completed of todo 1 is its initial value after an
\* even number of toggles and the negation after an odd number.
C30_TogglesFlipCompleted ==
    (\A c \in CallIds :
        calls[c].op = "Toggle" /\ calls[c].pc = "done" /\ calls[c].out.err = "")
        => \A r \in todos :
              r.id = 1 =>
                 r.completed =
                    (IF MaxCalls % 2 = 0
                     THEN Val(SelectById(Seeded(backend, SeedRows), 1)).completed
                     ELSE ~Val(SelectById(Seeded(backend, SeedRows), 1)).completed)

====
